---- MODULE Spec2Model ----
(***************************************************************************)
(* A model of checkSplitter: src/checks/check.py (Payer, Item, Check,      *)
(* SplitCheck) and the constructor-tax Check variant of src/check.py.      *)
(*                                                                         *)
(* Python numbers are modelled as exact rationals <<n, d>> in lowest terms *)
(* with d > 0, so sums and quotients are those of exact arithmetic.  A     *)
(* call ends in an outcome: [kind |-> "ok", value |-> v], or the exception *)
(* Python raises ("ZeroDivisionError", "TypeError").                       *)
(***************************************************************************)
EXTENDS Integers, FiniteSets, Sequences, TLC

\* Bounds of the model.
MaxItems == 2
MaxPayers == 2
MaxCost == 1
MaxAssigned == 1

ItemIds == 1..MaxItems
PayerIds == 1..MaxPayers
Costs == 0..MaxCost

\* Inputs of the calls: tax rates (as fractions) and tips.
TaxRates == {<<1, 10>>}
Tips == {<<5, 1>>}

VARIABLES
    items,             \* Check.items: the set of Item instances (by identity)
    cost,              \* Item.cost of each item of the check
    payers,            \* SplitCheck.payers
    item_assignments,  \* SplitCheck.item_assignments: Item -> payers or None
    refs,              \* which container object each field refers to
    result             \* the last call, its arguments and its outcome

vars == <<items, cost, payers, item_assignments, refs, result>>

----------------------------------------------------------------------------
\* Exact rational arithmetic standing for Python's numeric operators.

Abs(x) == IF x < 0 THEN -x ELSE x

RECURSIVE GCD(_, _)
GCD(a, b) == IF b = 0 THEN a ELSE GCD(b, a % b)

Rat(n, d) ==
    LET g == GCD(Abs(n), Abs(d))
        s == IF d < 0 THEN -1 ELSE 1
    IN  <<(s * n) \div g, (s * d) \div g>>

Zero == <<0, 1>>
One == <<1, 1>>
FromInt(n) == <<n, 1>>
RAdd(x, y) == Rat(x[1] * y[2] + y[1] * x[2], x[2] * y[2])
RMul(x, y) == Rat(x[1] * y[1], x[2] * y[2])
RLess(x, y) == x[1] * y[2] < y[1] * x[2]

Ok(v) == [kind |-> "ok", value |-> v]
Raise(e) == [kind |-> e, value |-> e]

\* x / y: Python raises ZeroDivisionError for a zero divisor.
Div(x, y) == IF y[1] = 0 THEN Raise("ZeroDivisionError")
             ELSE Ok(Rat(x[1] * y[2], x[2] * y[1]))

RECURSIVE RSum(_, _)
RSum(f, S) == IF S = {} THEN Zero
              ELSE LET x == CHOOSE y \in S : TRUE
                   IN  RAdd(f[x], RSum(f, S \ {x}))

----------------------------------------------------------------------------
\* Containers.  An object is [id, content]; "default" is the object of a
\* default parameter value (shared by every call that omits the argument),
\* "arg" one the caller passed, "own" one the constructor built.

DefaultItems == [id |-> "default", content |-> <<>>]
DefaultItemAssignments == [id |-> "default", content |-> <<>>]

\* A value of the item_assignments mapping: None, or a collection of payers.
None == [none |-> TRUE, payers |-> {}]
Some(S) == [none |-> FALSE, payers |-> S]
AssignmentValues == {None} \cup {Some(S) : S \in SUBSET PayerIds}

\* The arguments of the constructors.  A list of n items is the function
\* from the instances 1..n to their costs, a list of k payers the instances
\* 1..k; a mapping has at most MaxAssigned keys, any Item instances.
ItemLists == UNION {[1..n -> Costs] : n \in 0..MaxItems}
PayerLists == {1..k : k \in 0..MaxPayers}
AssignmentMaps ==
    UNION {[S -> AssignmentValues] :
              S \in {T \in SUBSET ItemIds : Cardinality(T) <= MaxAssigned}}
ItemArgs == {DefaultItems} \cup {[id |-> "arg", content |-> l] : l \in ItemLists}
AssignmentArgs ==
    {DefaultItemAssignments} \cup {[id |-> "arg", content |-> m] : m \in AssignmentMaps}

\* set(items), set(payers), dict(item_assignments): a new container with
\* the argument's content.
set(obj) == [id |-> "own", content |-> obj.content]

\* Faulty variant of dict: the field keeps the argument object itself.
AliasDict(obj) == obj

dict(obj) == [id |-> "own", content |-> obj.content]

----------------------------------------------------------------------------
\* Check (src/checks/check.py)

subtotal(its, c) == RSum([i \in its |-> FromInt(c[i])], its)

\* tax_amount is called with the positional arguments args; it has one
\* required parameter, tax_rate.
tax_amount(its, c, args) ==
    IF Len(args) # 1 THEN Raise("TypeError")
    ELSE Ok(RMul(args[1], subtotal(its, c)))

\* total: tip + self.tax_amount() + self.subtotal()
total(its, c, tax_rate, tip) ==
    LET tax_multiplier == RAdd(One, tax_rate)
        t == tax_amount(its, c, <<>>)
    IN  IF t.kind # "ok" THEN t
        ELSE Ok(RAdd(RAdd(tip, t.value), subtotal(its, c)))

\* Check of src/check.py: the tax rate is a constructor argument.
total_ctor(its, c, tax_rate, tip) ==
    LET tax_multiplier == RAdd(One, tax_rate)
    IN  Ok(RAdd(tip, RMul(tax_multiplier, subtotal(its, c))))

----------------------------------------------------------------------------
\* SplitCheck (src/checks/check.py)

\* The condition of lines 101-105: the item is split across all payers.
IsUnassigned(ia, item) ==
    \/ item \notin DOMAIN ia
    \/ ia[item].none
    \/ Cardinality(ia[item].payers) = 0

\* Faulty variant of ItemShare: an unassigned item's cost is added undivided.
ItemShareUndivided(ps, ia, c, payer, item) ==
    IF IsUnassigned(ia, item)
    THEN FromInt(c[item])
    ELSE Div(FromInt(c[item]), FromInt(Cardinality(ia[item].payers))).value

\* The amount the inner loop adds to payer_subtotal for one item.
ItemShare(ps, ia, c, payer, item) ==
    IF IsUnassigned(ia, item)
    THEN Div(FromInt(c[item]), FromInt(Cardinality(ps))).value
    ELSE Div(FromInt(c[item]), FromInt(Cardinality(ia[item].payers))).value

payer_subtotal(its, c, ps, ia, payer) ==
    RSum([i \in its |-> ItemShare(ps, ia, c, payer, i)], its)

\* Faulty variant of compute_proportions: a zero subtotal yields proportion 0.
compute_proportions_defaulting(its, c, ps, ia) ==
    IF ps = {} THEN Ok(<<>>)
    ELSE IF subtotal(its, c)[1] = 0 THEN Ok([p \in ps |-> Zero])
    ELSE Ok([p \in ps |->
                Div(payer_subtotal(its, c, ps, ia, p), subtotal(its, c)).value])

\* One pass of the outer loop per payer; the first division by a zero
\* subtotal (line 112) ends the call.
compute_proportions(its, c, ps, ia) ==
    IF ps = {} THEN Ok(<<>>)
    ELSE IF subtotal(its, c)[1] = 0 THEN Raise("ZeroDivisionError")
    ELSE Ok([p \in ps |->
                Div(payer_subtotal(its, c, ps, ia, p), subtotal(its, c)).value])

\* Faulty variant of compute_amounts_owed: the totals are computed once, before
\* the comprehension.
compute_amounts_owed_hoisted(its, c, ps, ia, tax_rate, tip) ==
    LET proportions == compute_proportions(its, c, ps, ia)
        t1 == total(its, c, tax_rate, Zero)
        t2 == total(its, c, tax_rate, tip)
    IN  IF proportions.kind # "ok" THEN proportions
        ELSE IF t1.kind # "ok" THEN t1
        ELSE IF t2.kind # "ok" THEN t2
        ELSE Ok([p \in ps |->
                    <<RMul(proportions.value[p], subtotal(its, c)),
                      RMul(proportions.value[p], t1.value),
                      RMul(proportions.value[p], t2.value)>>])

\* The comprehension evaluates total() once per payer, so with no payers
\* it is never called.
compute_amounts_owed(its, c, ps, ia, tax_rate, tip) ==
    LET proportions == compute_proportions(its, c, ps, ia)
        t1 == total(its, c, tax_rate, Zero)
        t2 == total(its, c, tax_rate, tip)
    IN  IF proportions.kind # "ok" THEN proportions
        ELSE IF ps = {} THEN Ok(<<>>)
        ELSE IF t1.kind # "ok" THEN t1
        ELSE IF t2.kind # "ok" THEN t2
        ELSE Ok([p \in ps |->
                    <<RMul(proportions.value[p], subtotal(its, c)),
                      RMul(proportions.value[p], t1.value),
                      RMul(proportions.value[p], t2.value)>>])

----------------------------------------------------------------------------
\* The state machine: a constructed SplitCheck, queried in any order.

NoCall == [op |-> "none", tax_rate |-> Zero, tip |-> Zero, outcome |-> Ok(Zero)]
Call(op, tax_rate, tip, outcome) ==
    [op |-> op, tax_rate |-> tax_rate, tip |-> tip, outcome |-> outcome]

\* Check.__init__: self.items = set(items)
Check_init(arg) == [items |-> set(arg)]

\* SplitCheck.__init__
SplitCheck_init(check, payer_list, arg) ==
    [check |-> check,
     payers |-> set([id |-> "arg", content |-> payer_list]),
     item_assignments |-> dict(arg)]

\* The state after SplitCheck(Check(items), payers, item_assignments), each
\* of items and item_assignments given or omitted.
Init ==
    \E ia \in ItemArgs, pl \in PayerLists, aa \in AssignmentArgs :
        LET self == SplitCheck_init(Check_init(ia), pl, aa)
        IN  /\ items = DOMAIN self.check.items.content
            /\ cost = self.check.items.content
            /\ payers = self.payers.content
            /\ item_assignments = self.item_assignments.content
            /\ refs = [items |-> self.check.items.id,
                       item_assignments |-> self.item_assignments.id]
            /\ result = NoCall

Subtotal ==
    /\ result' = Call("subtotal", Zero, Zero, Ok(subtotal(items, cost)))
    /\ UNCHANGED <<items, cost, payers, item_assignments, refs>>

TaxAmount ==
    /\ \E tax_rate \in TaxRates :
          result' = Call("tax_amount", tax_rate, Zero,
                         tax_amount(items, cost, <<tax_rate>>))
    /\ UNCHANGED <<items, cost, payers, item_assignments, refs>>

Total ==
    /\ \E tax_rate \in TaxRates, tip \in Tips :
          result' = Call("total", tax_rate, tip, total(items, cost, tax_rate, tip))
    /\ UNCHANGED <<items, cost, payers, item_assignments, refs>>

\* Check(items, tax_rate).total(tip) of src/check.py, on the same items.
TotalCtor ==
    /\ \E tax_rate \in TaxRates, tip \in Tips :
          result' = Call("total_ctor", tax_rate, tip,
                         total_ctor(items, cost, tax_rate, tip))
    /\ UNCHANGED <<items, cost, payers, item_assignments, refs>>

ComputeProportions ==
    /\ result' = Call("compute_proportions", Zero, Zero,
                      compute_proportions(items, cost, payers, item_assignments))
    /\ UNCHANGED <<items, cost, payers, item_assignments, refs>>

ComputeAmountsOwed ==
    /\ \E tax_rate \in TaxRates, tip \in Tips :
          result' = Call("compute_amounts_owed", tax_rate, tip,
                         compute_amounts_owed(items, cost, payers, item_assignments,
                                              tax_rate, tip))
    /\ UNCHANGED <<items, cost, payers, item_assignments, refs>>

Next ==
    \/ Subtotal
    \/ TaxAmount
    \/ Total
    \/ TotalCtor
    \/ ComputeProportions
    \/ ComputeAmountsOwed

Spec == Init /\ [][Next]_vars

----------------------------------------------------------------------------
\* Vocabulary of the properties.

Subtotal0 == subtotal(items, cost)
NumPayers == Cardinality(payers)
Returned == result.outcome.kind = "ok"
Proportion == result.outcome.value
After(op) == result.op = op

\* The responsible set of an item: its assigned payers, or all payers when
\* it has no entry, or an empty (or None) one.
Responsible(item) ==
    IF /\ item \in DOMAIN item_assignments
       /\ ~item_assignments[item].none
       /\ item_assignments[item].payers # {}
    THEN item_assignments[item].payers
    ELSE payers

\* Every assigned set of an item of the check lies within payers.
AssignedWithinPayers == \A i \in items : Responsible(i) \subseteq payers

\* What a payer accrues when only members of the responsible set pay.
MemberSubtotal(p) ==
    RSum([i \in items |->
             IF p \in Responsible(i)
             THEN Rat(cost[i], Cardinality(Responsible(i)))
             ELSE Zero], items)

\* subtotal + tax_rate * subtotal + tip
AdditiveTotal(tax_rate, tip) ==
    RAdd(RAdd(Subtotal0, RMul(tax_rate, Subtotal0)), tip)

Component(k) == RSum([p \in payers |-> result.outcome.value[p][k]], payers)

\* C1: with non-empty payers, a nonzero subtotal and every assigned set a
\* subset of payers, the proportions of compute_proportions() sum to 1.
C1_Conservation ==
    (After("compute_proportions") /\ payers # {} /\ Subtotal0 # Zero
        /\ AssignedWithinPayers)
    => (Returned /\ RSum(Proportion, payers) = One)

\* C2: an item contributes cost / |R| to a payer only when the payer is in
\* the item's responsible set R, so each payer's proportion is the sum of
\* the shares of the items it is responsible for, over the subtotal.
C2_ResponsibleMembership ==
    (After("compute_proportions") /\ Returned)
    => \A p \in payers : RMul(Proportion[p], Subtotal0) = MemberSubtotal(p)

\* C3: under the preconditions of C1, the three components of
\* compute_amounts_owed(tax_rate, tip) sum over the payers to subtotal(),
\* total(tax_rate, 0) and total(tax_rate, tip).
C3_FullAllocation ==
    (After("compute_amounts_owed") /\ payers # {} /\ Subtotal0 # Zero
        /\ AssignedWithinPayers)
    => /\ Returned
       /\ Component(1) = Subtotal0
       /\ Component(2) = AdditiveTotal(result.tax_rate, Zero)
       /\ Component(3) = AdditiveTotal(result.tax_rate, result.tip)

\* C4: total(tax_rate, tip) never fails and returns
\* subtotal() + tax_rate * subtotal() + tip, which is also what the
\* multiplier formulation of the constructor-tax Check returns.
C4_TotalNeverFails ==
    After("total")
    => /\ Returned
       /\ result.outcome.value = AdditiveTotal(result.tax_rate, result.tip)
       /\ result.outcome = total_ctor(items, cost, result.tax_rate, result.tip)

\* C5: with an empty item_assignments mapping, non-empty payers and a
\* nonzero subtotal, every payer's proportion is exactly 1 / len(payers).
C5_EvenSplitDefault ==
    (After("compute_proportions") /\ item_assignments = <<>> /\ payers # {}
        /\ Subtotal0 # Zero)
    => (Returned /\ \A p \in payers : Proportion[p] = Rat(1, NumPayers))

C5_Witness ==
    /\ After("compute_proportions") /\ item_assignments = <<>>
    /\ NumPayers = 2 /\ Cardinality(items) = 2 /\ Subtotal0 # Zero
    /\ Returned /\ Proportion[1] = <<1, 2>>

\* C6 as stated: with a zero subtotal compute_proportions() ends in the
\* explicit ZeroSubtotal error, never in a mapping or a generic fault.
C6_ZeroSubtotalError ==
    (After("compute_proportions") /\ Subtotal0 = Zero)
    => result.outcome.kind = "ZeroSubtotal"

\* C6 amended: with a zero subtotal compute_proportions() raises
\* ZeroDivisionError and returns no mapping when payers is non-empty, and
\* returns the empty mapping when payers is empty; it never returns
\* defaulted proportions.
C6_ZeroSubtotalDivision ==
    (After("compute_proportions") /\ Subtotal0 = Zero)
    => IF payers = {} THEN result.outcome = Ok(<<>>)
       ELSE result.outcome.kind = "ZeroDivisionError"

C6_Witness ==
    /\ After("compute_proportions") /\ Subtotal0 = Zero
    /\ items # {} /\ payers # {}
    /\ result.outcome.kind = "ZeroDivisionError"

\* C7 as stated: with an empty payers set compute_proportions() and
\* compute_amounts_owed() end in the explicit EmptyPayerSet error.
C7_EmptyPayerError ==
    ((After("compute_proportions") \/ After("compute_amounts_owed")) /\ payers = {})
    => result.outcome.kind = "EmptyPayerSet"

\* C7 amended: with an empty payers set compute_proportions() and
\* compute_amounts_owed() return the empty mapping, without any error.
C7_EmptyPayerEmptyMapping ==
    ((After("compute_proportions") \/ After("compute_amounts_owed")) /\ payers = {})
    => result.outcome = Ok(<<>>)

C7_Witness ==
    /\ After("compute_amounts_owed") /\ payers = {}
    /\ items # {} /\ Subtotal0 # Zero
    /\ result.outcome = Ok(<<>>)

\* C8: with non-empty payers and a nonzero subtotal,
\* compute_amounts_owed(tax_rate, tip) returns for exactly the payers the
\* triple of the payer's proportion times subtotal(), total(tax_rate) and
\* total(tax_rate, tip).
C8_UniformProportion ==
    (After("compute_amounts_owed") /\ payers # {} /\ Subtotal0 # Zero)
    => /\ Returned
       /\ DOMAIN result.outcome.value = payers
       /\ LET prop == compute_proportions(items, cost, payers, item_assignments).value
          IN  \A p \in payers :
                 result.outcome.value[p] =
                    <<RMul(prop[p], Subtotal0),
                      RMul(prop[p], AdditiveTotal(result.tax_rate, Zero)),
                      RMul(prop[p], AdditiveTotal(result.tax_rate, result.tip))>>

\* C9: when exactly one item, of cost C > 0, is assigned to a non-empty
\* strict subset S of payers and the other items are unassigned, payers in
\* S get more than 1 / len(payers), and payers outside S get less, namely
\* (subtotal - C) / (len(payers) * subtotal).
C9_SingleOverride ==
    \A i \in items :
        (/\ After("compute_proportions")
         /\ Subtotal0 # Zero
         /\ cost[i] > 0
         /\ Responsible(i) # payers
         /\ Responsible(i) \subseteq payers
         /\ \A j \in items \ {i} : j \notin DOMAIN item_assignments)
        => /\ Returned
           /\ \A p \in Responsible(i) : RLess(Rat(1, NumPayers), Proportion[p])
           /\ \A p \in payers \ Responsible(i) :
                 /\ RLess(Proportion[p], Rat(1, NumPayers))
                 /\ Proportion[p] =
                       Rat(Subtotal0[1] - cost[i], NumPayers * Subtotal0[1])

\* The outcome of a call, from the fields as they are and its arguments.
Answer(op, tax_rate, tip) ==
    CASE op = "subtotal" -> Ok(subtotal(items, cost))
      [] op = "tax_amount" -> tax_amount(items, cost, <<tax_rate>>)
      [] op = "total" -> total(items, cost, tax_rate, tip)
      [] op = "total_ctor" -> total_ctor(items, cost, tax_rate, tip)
      [] op = "compute_proportions" ->
            compute_proportions(items, cost, payers, item_assignments)
      [] op = "compute_amounts_owed" ->
            compute_amounts_owed(items, cost, payers, item_assignments, tax_rate, tip)

\* C10: every call, succeeding or failing, leaves check.items, payers and
\* item_assignments unchanged and returns what it returns as a first call
\* with these arguments; and the containers of a Check or SplitCheck are
\* never the shared default-argument objects.
C10_Stateless ==
    /\ [](refs.items # "default" /\ refs.item_assignments # "default")
    /\ [][/\ UNCHANGED <<items, cost, payers, item_assignments, refs>>
          /\ result'.outcome = Answer(result'.op, result'.tax_rate, result'.tip)]_vars

C10_Witness ==
    /\ After("compute_amounts_owed") /\ result.outcome.kind = "ZeroDivisionError"
    /\ item_assignments = <<>> /\ items = {}
    /\ refs.items = "own" /\ refs.item_assignments = "own"

====
